---- MODULE Spec2Model ----
(***************************************************************************)
(* Model of spconv/pytorch/quantization/fuse_mapping.py: the two fuser     *)
(* functions fuse_conv_bn and fuse_conv_bn_relu, their local dispatch      *)
(* maps, and the two module-level tables.  Layer types are strings, layer  *)
(* instances are records, a raised exception is an outcome record.         *)
(***************************************************************************)
EXTENDS Integers, Sequences, FiniteSets, TLC

\* ---------------------------------------------------------------- bounds
MaxChannels == 2   \* out_channels and num_features range over 1..MaxChannels
MaxCalls == 2      \* calls made on one set of layer instances
MaxVal == 1        \* tensor entries range over 0..MaxVal

\* ----------------------------------------------------------------- types
SupportedConvTypes ==
    {"SubMConv1d", "SparseConv1d", "SparseInverseConv1d",
     "SubMConv2d", "SparseConv2d", "SparseInverseConv2d",
     "SubMConv3d", "SparseConv3d", "SparseInverseConv3d"}

\* Conv types that are none of the nine: the common base class of the nine
\* variants and a user subclass of one of them.
OtherConvTypes == {"SparseConvolution", "UserSubMConv3d"}

ConvTypes == SupportedConvTypes \cup OtherConvTypes

\* The direct base class of each conv type.
Parent(t) ==
    IF t = "UserSubMConv3d" THEN "SubMConv3d"
    ELSE IF t \in SupportedConvTypes THEN "SparseConvolution"
    ELSE "Module"

None == "None"

\* ------------------------------------------------- exact rational numbers
Rat(n, d) == [n |-> n, d |-> d]
FromInt(i) == Rat(i, 1)
RAdd(a, b) == Rat(a.n * b.d + b.n * a.d, a.d * b.d)
RSub(a, b) == Rat(a.n * b.d - b.n * a.d, a.d * b.d)
RMul(a, b) == Rat(a.n * b.n, a.d * b.d)
RDiv(a, b) == Rat(a.n * b.d, a.d * b.n)
REq(a, b) == a.n * b.d = b.n * a.d
Sqrt(n) == CHOOSE r \in 0..n : r * r = n

\* ------------------------------------------------------------ dict helper
\* A Python dict literal: the keys of the entries, a later entry of the same
\* key replacing an earlier one.
Last(entries, k) ==
    CHOOSE i \in DOMAIN entries :
        /\ entries[i][1] = k
        /\ \A j \in DOMAIN entries : entries[j][1] = k => j <= i
DictOf(entries) ==
    [k \in {entries[i][1] : i \in DOMAIN entries} |-> entries[Last(entries, k)][2]]

\* Variant of Get: a lookup that also accepts a direct subclass of a key.
GetBySubclass(d, key) ==
    IF key \in DOMAIN d THEN d[key]
    ELSE IF Parent(key) \in DOMAIN d THEN d[Parent(key)]
    ELSE None
\* dict.get(key, None) on a dict keyed by type objects: a type is found only
\* if it is itself a key.
Get(d, key) == IF key \in DOMAIN d THEN d[key] ELSE None

\* ------------------------------------------------------- dispatch tables
\* Variant of fused_module_class_map: the SparseInverseConv3d row missing.
fused_module_class_map_noInverse3d ==
    DictOf(<< <<"SubMConv1d", "SpconvBnNd">>,
              <<"SparseConv1d", "SpconvBnNd">>,
              <<"SparseInverseConv1d", "SpconvBnNd">>,
              <<"SubMConv2d", "SpconvBnNd">>,
              <<"SparseConv2d", "SpconvBnNd">>,
              <<"SparseInverseConv2d", "SpconvBnNd">>,
              <<"SubMConv3d", "SpconvBnNd">>,
              <<"SparseConv3d", "SpconvBnNd">> >>)
\* fuse_conv_bn's map: every variant to the conv+bn intrinsic type.
fused_module_class_map ==
    DictOf(<< <<"SubMConv1d", "SpconvBnNd">>,
              <<"SparseConv1d", "SpconvBnNd">>,
              <<"SparseInverseConv1d", "SpconvBnNd">>,
              <<"SubMConv2d", "SpconvBnNd">>,
              <<"SparseConv2d", "SpconvBnNd">>,
              <<"SparseInverseConv2d", "SpconvBnNd">>,
              <<"SubMConv3d", "SpconvBnNd">>,
              <<"SparseConv3d", "SpconvBnNd">>,
              <<"SparseInverseConv3d", "SpconvBnNd">> >>)

\* Variant of map_to_fused_module_train: SparseConv2d sent to SpconvBnNd.
map_to_fused_module_train_asBn ==
    DictOf(<< <<"SubMConv1d", "SpconvBnReLUNd">>,
              <<"SparseConv1d", "SpconvBnReLUNd">>,
              <<"SparseInverseConv1d", "SpconvBnReLUNd">>,
              <<"SubMConv2d", "SpconvBnReLUNd">>,
              <<"SparseConv2d", "SpconvBnNd">>,
              <<"SparseInverseConv2d", "SpconvBnReLUNd">>,
              <<"SubMConv3d", "SpconvBnReLUNd">>,
              <<"SparseConv3d", "SpconvBnReLUNd">>,
              <<"SparseInverseConv3d", "SpconvBnReLUNd">> >>)
\* fuse_conv_bn_relu's training map: every variant to conv+bn+relu.
map_to_fused_module_train ==
    DictOf(<< <<"SubMConv1d", "SpconvBnReLUNd">>,
              <<"SparseConv1d", "SpconvBnReLUNd">>,
              <<"SparseInverseConv1d", "SpconvBnReLUNd">>,
              <<"SubMConv2d", "SpconvBnReLUNd">>,
              <<"SparseConv2d", "SpconvBnReLUNd">>,
              <<"SparseInverseConv2d", "SpconvBnReLUNd">>,
              <<"SubMConv3d", "SpconvBnReLUNd">>,
              <<"SparseConv3d", "SpconvBnReLUNd">>,
              <<"SparseInverseConv3d", "SpconvBnReLUNd">> >>)

\* Variant of map_to_fused_module_eval: the SubMConv2d row missing.
map_to_fused_module_eval_noSubM2d ==
    DictOf(<< <<"SubMConv1d", "SpconvReLUNd">>,
              <<"SparseConv1d", "SpconvReLUNd">>,
              <<"SparseInverseConv1d", "SpconvReLUNd">>,
              <<"SparseConv2d", "SpconvReLUNd">>,
              <<"SparseInverseConv2d", "SpconvReLUNd">>,
              <<"SubMConv3d", "SpconvReLUNd">>,
              <<"SparseConv3d", "SpconvReLUNd">>,
              <<"SparseInverseConv3d", "SpconvReLUNd">> >>)
\* fuse_conv_bn_relu's eval map: every variant to conv+relu.
map_to_fused_module_eval ==
    DictOf(<< <<"SubMConv1d", "SpconvReLUNd">>,
              <<"SparseConv1d", "SpconvReLUNd">>,
              <<"SparseInverseConv1d", "SpconvReLUNd">>,
              <<"SubMConv2d", "SpconvReLUNd">>,
              <<"SparseConv2d", "SpconvReLUNd">>,
              <<"SparseInverseConv2d", "SpconvReLUNd">>,
              <<"SubMConv3d", "SpconvReLUNd">>,
              <<"SparseConv3d", "SpconvReLUNd">>,
              <<"SparseInverseConv3d", "SpconvReLUNd">> >>)

\* Variant of the op-sequence table: the SubMConv2d rows typed as SubMConv1d.
DEFAULT_SPCONV_OP_LIST_TO_FUSER_METHOD_dupKey ==
    DictOf(<< << <<"SubMConv1d", "BatchNorm1d">>, "fuse_conv_bn" >>,
              << <<"SubMConv1d", "BatchNorm1d", "ReLU">>, "fuse_conv_bn_relu" >>,
              << <<"SparseConv1d", "BatchNorm1d">>, "fuse_conv_bn" >>,
              << <<"SparseConv1d", "BatchNorm1d", "ReLU">>, "fuse_conv_bn_relu" >>,
              << <<"SparseInverseConv1d", "BatchNorm1d">>, "fuse_conv_bn" >>,
              << <<"SparseInverseConv1d", "BatchNorm1d", "ReLU">>, "fuse_conv_bn_relu" >>,
              << <<"SubMConv1d", "BatchNorm1d">>, "fuse_conv_bn" >>,
              << <<"SubMConv1d", "BatchNorm1d", "ReLU">>, "fuse_conv_bn_relu" >>,
              << <<"SparseConv2d", "BatchNorm1d">>, "fuse_conv_bn" >>,
              << <<"SparseConv2d", "BatchNorm1d", "ReLU">>, "fuse_conv_bn_relu" >>,
              << <<"SparseInverseConv2d", "BatchNorm1d">>, "fuse_conv_bn" >>,
              << <<"SparseInverseConv2d", "BatchNorm1d", "ReLU">>, "fuse_conv_bn_relu" >>,
              << <<"SubMConv3d", "BatchNorm1d">>, "fuse_conv_bn" >>,
              << <<"SubMConv3d", "BatchNorm1d", "ReLU">>, "fuse_conv_bn_relu" >>,
              << <<"SparseConv3d", "BatchNorm1d">>, "fuse_conv_bn" >>,
              << <<"SparseConv3d", "BatchNorm1d", "ReLU">>, "fuse_conv_bn_relu" >>,
              << <<"SparseInverseConv3d", "BatchNorm1d">>, "fuse_conv_bn" >>,
              << <<"SparseInverseConv3d", "BatchNorm1d", "ReLU">>, "fuse_conv_bn_relu" >> >>)
\* Op sequence -> fuser function.
DEFAULT_SPCONV_OP_LIST_TO_FUSER_METHOD ==
    DictOf(<< << <<"SubMConv1d", "BatchNorm1d">>, "fuse_conv_bn" >>,
              << <<"SubMConv1d", "BatchNorm1d", "ReLU">>, "fuse_conv_bn_relu" >>,
              << <<"SparseConv1d", "BatchNorm1d">>, "fuse_conv_bn" >>,
              << <<"SparseConv1d", "BatchNorm1d", "ReLU">>, "fuse_conv_bn_relu" >>,
              << <<"SparseInverseConv1d", "BatchNorm1d">>, "fuse_conv_bn" >>,
              << <<"SparseInverseConv1d", "BatchNorm1d", "ReLU">>, "fuse_conv_bn_relu" >>,
              << <<"SubMConv2d", "BatchNorm1d">>, "fuse_conv_bn" >>,
              << <<"SubMConv2d", "BatchNorm1d", "ReLU">>, "fuse_conv_bn_relu" >>,
              << <<"SparseConv2d", "BatchNorm1d">>, "fuse_conv_bn" >>,
              << <<"SparseConv2d", "BatchNorm1d", "ReLU">>, "fuse_conv_bn_relu" >>,
              << <<"SparseInverseConv2d", "BatchNorm1d">>, "fuse_conv_bn" >>,
              << <<"SparseInverseConv2d", "BatchNorm1d", "ReLU">>, "fuse_conv_bn_relu" >>,
              << <<"SubMConv3d", "BatchNorm1d">>, "fuse_conv_bn" >>,
              << <<"SubMConv3d", "BatchNorm1d", "ReLU">>, "fuse_conv_bn_relu" >>,
              << <<"SparseConv3d", "BatchNorm1d">>, "fuse_conv_bn" >>,
              << <<"SparseConv3d", "BatchNorm1d", "ReLU">>, "fuse_conv_bn_relu" >>,
              << <<"SparseInverseConv3d", "BatchNorm1d">>, "fuse_conv_bn" >>,
              << <<"SparseInverseConv3d", "BatchNorm1d", "ReLU">>, "fuse_conv_bn_relu" >> >>)

\* Variant of the QAT table: the SpconvBnReLUNd row missing.
DEFAULT_SPCONV_QAT_MODULE_MAPPINGS_noBnReLU ==
    DictOf(<< <<"SpconvBnNd", "SparseConvBn">> >>)
\* Intrinsic type -> quantization-aware-training module type.
DEFAULT_SPCONV_QAT_MODULE_MAPPINGS ==
    DictOf(<< <<"SpconvBnNd", "SparseConvBn">>,
              <<"SpconvBnReLUNd", "SparseConvBnReLU">> >>)

\* The intrinsic wrapper types of spconv.pytorch.quantization.intrinsic.
IntrinsicTypes == {"SpconvBnNd", "SpconvBnReLUNd", "SpconvReLUNd"}

\* ---------------------------------------------------------------- state
VARIABLES
    conv,           \* the caller's conv instance
    bn,             \* the caller's batch-norm instance
    relu,           \* the caller's activation instance
    opListToFuser,  \* module global DEFAULT_SPCONV_OP_LIST_TO_FUSER_METHOD
    qatMappings,    \* module global DEFAULT_SPCONV_QAT_MODULE_MAPPINGS
    result,         \* the last call: function, outcome, objects allocated before it
    first,          \* per function, the outcome of its first call
    nalloc,         \* objects allocated by the calls so far
    ncalls          \* calls made so far

vars == <<conv, bn, relu, opListToFuser, qatMappings, result, first, nalloc, ncalls>>

\* Object identities of the three caller-owned instances.
InputIds == {1, 2, 3}

NoModule == [id |-> 0, cls |-> None]

\* ------------------------------------------------------------- outcomes
\* A call ends by returning a module or by raising.  status names the error
\* kind, exc the Python exception class, trace the steps taken in order,
\* nnew the number of objects the call allocated.
Raise(status, exc, trace, nnew) ==
    [status |-> status, exc |-> exc, obj |-> NoModule, trace |-> trace, nnew |-> nnew]
Return(obj, trace, nnew) ==
    [status |-> "ok", exc |-> None, obj |-> obj, trace |-> trace, nnew |-> nnew]
NoOutcome == Raise("none", None, <<>>, 0)

\* An intrinsic wrapper (a SparseSequential subclass) built from its parts.
Construct(cls, parts, id) == [id |-> id, cls |-> cls, parts |-> parts]

\* ------------------------------------------------- the eval fold routine
\* utils.fuse_spconv_bn_eval: a copy of conv with the batch-norm folded in,
\*   w' = w * gamma / sqrt(var + eps)
\*   b' = (b - mean) * gamma / sqrt(var + eps) + beta
fuse_spconv_bn_eval(c, b, id) ==
    LET scale == RDiv(b.weight, FromInt(Sqrt(b.running_var + b.eps)))
    IN  [c EXCEPT !.id = id,
                  !.weight = RMul(c.weight, scale),
                  !.bias = RAdd(RMul(RSub(c.bias, b.running_mean), scale), b.bias)]

\* ---------------------------------------------------------- fuse_conv_bn
\* Variant of fuse_conv_bn_asserts: the affine assertion missing.
fuse_conv_bn_asserts_noAffine(c, b) ==
    IF b.num_features # c.out_channels THEN "assert_num_features"
    ELSE IF ~b.track_running_stats THEN "assert_track_running_stats"
    ELSE None
\* The three assertions of the training branch, in order: the first one
\* that fails, or None.
fuse_conv_bn_asserts(c, b) ==
    IF b.num_features # c.out_channels THEN "assert_num_features"
    ELSE IF ~b.affine THEN "assert_affine"
    ELSE IF ~b.track_running_stats THEN "assert_track_running_stats"
    ELSE None

\* The steps taken up to and including the failing assertion.
AssertTrace(failed) ==
    IF failed = "assert_num_features" THEN <<"assert_num_features">>
    ELSE IF failed = "assert_affine" THEN <<"assert_num_features", "assert_affine">>
    ELSE <<"assert_num_features", "assert_affine", "assert_track_running_stats">>

fuse_conv_bn_train(c, b, n) ==
    LET failed == fuse_conv_bn_asserts(c, b)
        fused_module_class == Get(fused_module_class_map, c.cls)
        t == <<"assert_mode">> \o AssertTrace(failed)
    IN  IF failed # None
        THEN Raise("ConfigurationError", "AssertionError", t, 0)
        ELSE IF fused_module_class # None
        THEN Return(Construct(fused_module_class, <<c, b>>, n + 1),
                    t \o <<"lookup", "construct">>, 1)
        ELSE Raise("UnsupportedLayerType", "NotImplementedError", t \o <<"lookup">>, 0)

\* Variant of fuse_conv_bn_eval: the fold written into conv, conv returned.
fuse_conv_bn_eval_inPlace(c, b, n) ==
    Return([fuse_spconv_bn_eval(c, b, n + 1) EXCEPT !.id = c.id],
           <<"assert_mode", "fold">>, 0)
\* The eval branch: the fold routine's result, returned as is.
fuse_conv_bn_eval(c, b, n) ==
    Return(fuse_spconv_bn_eval(c, b, n + 1), <<"assert_mode", "fold">>, 1)

\* Variant of fuse_conv_bn: the training branch taken in either mode.
fuse_conv_bn_alwaysTrain(c, b, n) ==
    IF c.training # b.training
    THEN Raise("ModeMismatch", "AssertionError", <<"assert_mode">>, 0)
    ELSE fuse_conv_bn_train(c, b, n)
fuse_conv_bn(c, b, n) ==
    IF c.training # b.training
    THEN Raise("ModeMismatch", "AssertionError", <<"assert_mode">>, 0)
    ELSE IF c.training
    THEN fuse_conv_bn_train(c, b, n)
    ELSE fuse_conv_bn_eval(c, b, n)

\* ----------------------------------------------------- fuse_conv_bn_relu
\* Variant of SameMode3: relu's flag not compared.
SameMode3_convBnOnly(c, b, r) == c.training = b.training
\* conv.training == bn.training == relu.training (a chained comparison).
SameMode3(c, b, r) == c.training = b.training /\ b.training = r.training

fuse_conv_bn_relu_asserts(c, b) ==
    IF b.num_features # c.out_channels THEN "assert_num_features"
    ELSE IF ~b.affine THEN "assert_affine"
    ELSE IF ~b.track_running_stats THEN "assert_track_running_stats"
    ELSE None

fuse_conv_bn_relu_train(c, b, r, n) ==
    LET failed == fuse_conv_bn_relu_asserts(c, b)
        fused_module == Get(map_to_fused_module_train, c.cls)
        t == <<"assert_mode">> \o AssertTrace(failed)
    IN  IF failed # None
        THEN Raise("ConfigurationError", "AssertionError", t, 0)
        ELSE IF fused_module # None
        THEN Return(Construct(fused_module, <<c, b, r>>, n + 1),
                    t \o <<"lookup", "construct">>, 1)
        ELSE Raise("UnsupportedLayerType", "NotImplementedError", t \o <<"lookup">>, 0)

\* Variant of fuse_conv_bn_relu_eval: the original conv wrapped, not the
\* folded one.
fuse_conv_bn_relu_eval_wrapOriginal(c, b, r, n) ==
    LET fused_module == Get(map_to_fused_module_eval, c.cls)
    IN  IF fused_module # None
        THEN Return(Construct(fused_module, <<c, r>>, n + 2),
                    <<"assert_mode", "lookup", "fold", "construct">>, 2)
        ELSE Raise("UnsupportedLayerType", "NotImplementedError",
                   <<"assert_mode", "lookup">>, 0)
\* The eval branch: lookup, then fold, then wrap (fused_conv, relu).
fuse_conv_bn_relu_eval(c, b, r, n) ==
    LET fused_module == Get(map_to_fused_module_eval, c.cls)
        fused_conv == fuse_spconv_bn_eval(c, b, n + 1)
    IN  IF fused_module # None
        THEN Return(Construct(fused_module, <<fused_conv, r>>, n + 2),
                    <<"assert_mode", "lookup", "fold", "construct">>, 2)
        ELSE Raise("UnsupportedLayerType", "NotImplementedError",
                   <<"assert_mode", "lookup">>, 0)

fuse_conv_bn_relu(c, b, r, n) ==
    IF ~SameMode3(c, b, r)
    THEN Raise("ModeMismatch", "AssertionError", <<"assert_mode">>, 0)
    ELSE IF c.training
    THEN fuse_conv_bn_relu_train(c, b, r, n)
    ELSE fuse_conv_bn_relu_eval(c, b, r, n)

\* ------------------------------------------------------------------ Init
Bool == {TRUE, FALSE}
Vals == 0..MaxVal
Channels == 1..MaxChannels

ConvInstance(cls, training, oc, w, b) ==
    [id |-> 1, cls |-> cls, training |-> training, out_channels |-> oc,
     weight |-> FromInt(w), bias |-> FromInt(b)]
BnInstance(training, nf, affine, track, mean, var, eps, gamma, beta) ==
    [id |-> 2, cls |-> "BatchNorm1d", training |-> training, num_features |-> nf,
     affine |-> affine, track_running_stats |-> track,
     running_mean |-> FromInt(mean), running_var |-> var, eps |-> eps,
     weight |-> FromInt(gamma), bias |-> FromInt(beta)]
ReLUInstance(training) == [id |-> 3, cls |-> "ReLU", training |-> training]

NoCall == [fn |-> "none", out |-> NoOutcome, base |-> 0]

InitRest ==
    /\ opListToFuser = DEFAULT_SPCONV_OP_LIST_TO_FUSER_METHOD
    /\ qatMappings = DEFAULT_SPCONV_QAT_MODULE_MAPPINGS
    /\ result = NoCall
    /\ first = [f \in {"fuse_conv_bn", "fuse_conv_bn_relu"} |-> NoCall]
    /\ nalloc = 0
    /\ ncalls = 0

\* Every combination of conv type, modes and batch-norm configuration, the
\* tensors at their construction defaults (weight one, bias zero, running
\* mean zero, running variance one).
Init ==
    /\ \E cls \in ConvTypes, tr \in Bool, oc \in Channels :
           conv = ConvInstance(cls, tr, oc, 1, 0)
    /\ \E tr \in Bool, nf \in Channels, affine \in Bool, track \in Bool :
           bn = BnInstance(tr, nf, affine, track, 0, 1, 0, 1, 0)
    /\ \E tr \in Bool : relu = ReLUInstance(tr)
    /\ InitRest

\* Eval-mode layers of matching channel count with trained tensors: one
\* output channel's parameters, the running variance chosen so that
\* var + eps is a perfect square.
InitFold ==
    /\ \E cls \in ConvTypes, oc \in Channels, w \in Vals, b \in Vals :
           conv = ConvInstance(cls, FALSE, oc, w, b)
    /\ \E mean \in Vals, std \in 1..(MaxVal + 1), eps \in {0, 1},
          gamma \in Vals, beta \in Vals :
           bn = BnInstance(FALSE, conv.out_channels, TRUE, TRUE,
                           mean, std * std - eps, eps, gamma, beta)
    /\ relu = ReLUInstance(FALSE)
    /\ InitRest

\* --------------------------------------------------------------- actions
FreshBase == Cardinality(InputIds) + nalloc

Record(fn, out) ==
    /\ result' = [fn |-> fn, out |-> out, base |-> nalloc]
    /\ first' = IF first[fn] = NoCall THEN [first EXCEPT ![fn] = result'] ELSE first
    /\ nalloc' = nalloc + out.nnew
    /\ ncalls' = ncalls + 1

CallFuseConvBn ==
    /\ ncalls < MaxCalls
    /\ Record("fuse_conv_bn", fuse_conv_bn(conv, bn, FreshBase))
    /\ UNCHANGED <<conv, bn, relu, opListToFuser, qatMappings>>

CallFuseConvBnReLU ==
    /\ ncalls < MaxCalls
    /\ Record("fuse_conv_bn_relu", fuse_conv_bn_relu(conv, bn, relu, FreshBase))
    /\ UNCHANGED <<conv, bn, relu, opListToFuser, qatMappings>>

Next == CallFuseConvBn \/ CallFuseConvBnReLU

Spec == Init /\ [][Next]_vars
SpecFold == InitFold /\ [][Next]_vars

\* ================================================================ claims
Called(fn) == result.fn = fn
Status == result.out.status
Obj == result.out.obj
Trace == result.out.trace
Did(step) == \E i \in DOMAIN Trace : Trace[i] = step
Count(step) == Cardinality({i \in DOMAIN Trace : Trace[i] = step})
Supported == conv.cls \in SupportedConvTypes
BnValid == bn.num_features = conv.out_channels /\ bn.affine /\ bn.track_running_stats
AllSame2 == conv.training = bn.training
AllSame3 == conv.training = bn.training /\ bn.training = relu.training
SameModeForCall == IF Called("fuse_conv_bn") THEN AllSame2 ELSE AllSame3
ModeMismatchOutcome == Raise("ModeMismatch", "AssertionError", <<"assert_mode">>, 0)

\* C1: whenever the training flags of the layers passed to fuse_conv_bn
\* (conv, bn) or fuse_conv_bn_relu (conv, bn, relu) are not all equal, the
\* call fails with ModeMismatch whatever the conv type and batch-norm
\* configuration, and the mode check is the only step taken; in every call
\* the mode check is the first step.
C1_ModeMismatchFirst ==
    /\ (Called("fuse_conv_bn") /\ ~AllSame2) => result.out = ModeMismatchOutcome
    /\ (Called("fuse_conv_bn_relu") /\ ~AllSame3) => result.out = ModeMismatchOutcome
    /\ result.fn # "none" => Trace[1] = "assert_mode" /\ Count("assert_mode") = 1

C1_Witness ==
    /\ Called("fuse_conv_bn_relu")
    /\ conv.training = bn.training /\ relu.training # bn.training
    /\ ~Supported /\ ~bn.affine
    /\ Status = "ModeMismatch"

C3_FuseConvBnTrain ==
    (Called("fuse_conv_bn") /\ Supported /\ conv.training /\ bn.training) =>
        IF BnValid
        THEN Status = "ok" /\ Obj.cls = "SpconvBnNd" /\ Obj.parts = <<conv, bn>>
        ELSE Status = "ConfigurationError" /\ Obj = NoModule /\ ~Did("construct")

C3_Witness ==
    /\ Called("fuse_conv_bn") /\ conv.cls = "SparseInverseConv3d"
    /\ conv.training /\ bn.training /\ BnValid
    /\ Status = "ok" /\ Obj.cls = "SpconvBnNd"

\* C4: the op-sequence table has exactly 18 keys, one (variant, BatchNorm)
\* pair and one (variant, BatchNorm, ReLU) triple per variant and nothing
\* else; pairs map to fuse_conv_bn (two parameters), triples to
\* fuse_conv_bn_relu (three parameters).
FuserArity(fn) == IF fn = "fuse_conv_bn" THEN 2 ELSE IF fn = "fuse_conv_bn_relu" THEN 3 ELSE 0

C4_OpListTable ==
    /\ Cardinality(DOMAIN opListToFuser) = 18
    /\ DOMAIN opListToFuser =
           {<<v, "BatchNorm1d">> : v \in SupportedConvTypes}
               \cup {<<v, "BatchNorm1d", "ReLU">> : v \in SupportedConvTypes}
    /\ \A k \in DOMAIN opListToFuser :
           /\ Len(k) = 2 => opListToFuser[k] = "fuse_conv_bn"
           /\ Len(k) = 3 => opListToFuser[k] = "fuse_conv_bn_relu"
           /\ FuserArity(opListToFuser[k]) = Len(k)

C4_Witness ==
    /\ Called("fuse_conv_bn_relu") /\ conv.cls = "SubMConv2d"
    /\ <<conv.cls, bn.cls, relu.cls>> \in DOMAIN opListToFuser
    /\ opListToFuser[<<conv.cls, bn.cls, relu.cls>>] = result.fn
    /\ Status = "ok"
    /\ Cardinality(DOMAIN opListToFuser) = 18

\* C5: fuse_conv_bn_relu with all three layers in eval mode, on one of the
\* nine variants, calls the fold routine exactly once on (conv, bn) and
\* returns a SpconvReLUNd built from (folded_conv, relu), folded_conv being
\* the routine's result and a different object from conv, with no
\* batch-norm among the parts; on any other conv type it fails with
\* UnsupportedLayerType without calling the fold routine; no batch-norm
\* configuration check is made on this path.
C5_FuseConvBnReLUEval ==
    (Called("fuse_conv_bn_relu") /\ AllSame3 /\ ~conv.training) =>
        /\ ~Did("assert_num_features") /\ ~Did("assert_affine")
        /\ ~Did("assert_track_running_stats")
        /\ IF Supported
           THEN /\ Status = "ok" /\ Obj.cls = "SpconvReLUNd"
                /\ Count("fold") = 1
                /\ Len(Obj.parts) = 2
                /\ Obj.parts[1] = fuse_spconv_bn_eval(conv, bn, Obj.parts[1].id)
                /\ Obj.parts[1].id # conv.id
                /\ Obj.parts[2] = relu
                /\ \A i \in DOMAIN Obj.parts : Obj.parts[i].cls # bn.cls
           ELSE Status = "UnsupportedLayerType" /\ Obj = NoModule /\ ~Did("fold")

C5_Witness ==
    /\ Called("fuse_conv_bn_relu") /\ AllSame3 /\ ~conv.training
    /\ conv.cls = "SparseConv2d" /\ ~bn.affine /\ bn.num_features # conv.out_channels
    /\ Status = "ok" /\ Obj.cls = "SpconvReLUNd"

\* C6: fuse_conv_bn_relu with all three layers in training mode, on one of
\* the nine variants, returns a SpconvBnReLUNd built from exactly
\* (conv, bn, relu) without calling the fold routine when the three
\* batch-norm conditions hold, and fails with ConfigurationError otherwise.
C6_FuseConvBnReLUTrain ==
    (Called("fuse_conv_bn_relu") /\ AllSame3 /\ conv.training /\ Supported) =>
        /\ ~Did("fold")
        /\ IF BnValid
           THEN Status = "ok" /\ Obj.cls = "SpconvBnReLUNd" /\ Obj.parts = <<conv, bn, relu>>
           ELSE Status = "ConfigurationError" /\ Obj = NoModule /\ ~Did("construct")

C6_Witness ==
    /\ Called("fuse_conv_bn_relu") /\ AllSame3 /\ conv.training
    /\ conv.cls = "SparseConv2d" /\ BnValid
    /\ Status = "ok" /\ Obj.cls = "SpconvBnReLUNd"

\* C7 as stated: every intrinsic wrapper type the dispatcher returns, in any
\* mode, is a key of the QAT table.
C7_Original ==
    (Status = "ok" /\ Obj.cls \in IntrinsicTypes) => Obj.cls \in DOMAIN qatMappings

\* C7 amended: every intrinsic wrapper type the dispatcher returns in
\* training mode is a key of the QAT table, SpconvBnNd mapped to
\* SparseConvBn and SpconvBnReLUNd to SparseConvBnReLU; the SpconvReLUNd
\* returned by fuse_conv_bn_relu in eval mode is not a key of the table.
C7_QatTable ==
    /\ (Status = "ok" /\ conv.training) =>
           /\ Obj.cls \in IntrinsicTypes
           /\ Obj.cls \in DOMAIN qatMappings
           /\ Obj.cls = "SpconvBnNd" => qatMappings[Obj.cls] = "SparseConvBn"
           /\ Obj.cls = "SpconvBnReLUNd" => qatMappings[Obj.cls] = "SparseConvBnReLU"
    /\ (Status = "ok" /\ ~conv.training /\ Called("fuse_conv_bn_relu")) =>
           (Obj.cls = "SpconvReLUNd" /\ Obj.cls \notin DOMAIN qatMappings)

C7_Witness ==
    /\ Called("fuse_conv_bn_relu") /\ conv.training /\ Status = "ok"
    /\ Obj.cls = "SpconvBnReLUNd" /\ qatMappings[Obj.cls] = "SparseConvBnReLU"

\* One output channel of a convolution with a single kernel tap, and of
\* eval-mode batch normalisation, on input value x.
ConvForward(m, x) == RAdd(RMul(m.weight, FromInt(x)), m.bias)
BnForward(b, y) ==
    RAdd(RMul(RDiv(RSub(y, b.running_mean), FromInt(Sqrt(b.running_var + b.eps))),
              b.weight),
         b.bias)
Scale == RDiv(bn.weight, FromInt(Sqrt(bn.running_var + bn.eps)))

\* C8: fuse_conv_bn in eval mode on one of the nine variants calls the fold
\* routine once and returns its result, a conv-only module of the same type
\* and a new object, with w' = w * gamma / sqrt(var + eps) and
\* b' = (b - mean) * gamma / sqrt(var + eps) + beta, whose output on every
\* input equals that of conv followed by bn (in exact arithmetic).
C8_FuseConvBnEval ==
    (Called("fuse_conv_bn") /\ Supported /\ AllSame2 /\ ~conv.training) =>
        /\ Status = "ok" /\ Count("fold") = 1 /\ ~Did("construct")
        /\ Obj.cls = conv.cls /\ Obj.cls \notin IntrinsicTypes
        /\ Obj.id \notin InputIds
        /\ Obj = fuse_spconv_bn_eval(conv, bn, Obj.id)
        /\ REq(Obj.weight, RMul(conv.weight, Scale))
        /\ REq(Obj.bias, RAdd(RMul(RSub(conv.bias, bn.running_mean), Scale), bn.bias))
        /\ \A x \in -MaxVal..MaxVal :
               REq(ConvForward(Obj, x), BnForward(bn, ConvForward(conv, x)))

C8_Witness ==
    /\ Called("fuse_conv_bn") /\ conv.cls = "SparseInverseConv1d" /\ ~conv.training
    /\ Status = "ok"
    /\ bn.running_mean.n > 0 /\ bn.running_var > 1 /\ bn.weight.n > 0 /\ bn.bias.n > 0
    /\ conv.weight.n > 0 /\ conv.bias.n = 0
    /\ Obj.weight.d > 1 /\ ~REq(Obj.weight, conv.weight) /\ ~REq(Obj.bias, conv.bias)

\* The outcome of a call with object identities made relative to the number
\* of objects allocated before the call.
RelId(i, k) == IF i \in InputIds \cup {NoModule.id} THEN i ELSE i - k
RelObj(o, k) ==
    IF o.cls \in IntrinsicTypes
    THEN [id |-> RelId(o.id, k), cls |-> o.cls,
          parts |-> [i \in DOMAIN o.parts |-> [o.parts[i] EXCEPT !.id = RelId(@, k)]]]
    ELSE [o EXCEPT !.id = RelId(@, k)]
RelCall(r) == [fn |-> r.fn, out |-> [r.out EXCEPT !.obj = RelObj(@, r.base)]]

\* The identities of the objects that exist when the last call starts.
ExistingIds == 1..(Cardinality(InputIds) + result.base)

C9_State ==
    /\ opListToFuser = DEFAULT_SPCONV_OP_LIST_TO_FUSER_METHOD
    /\ qatMappings = DEFAULT_SPCONV_QAT_MODULE_MAPPINGS
    /\ result.fn # "none" => RelCall(result) = RelCall(first[result.fn])
    /\ Status = "ok" =>
           /\ Obj.id \notin ExistingIds
           /\ Obj \notin {conv, bn, relu}
           /\ result.out.nnew >= 1
C9_Step ==
    /\ conv' = conv /\ bn' = bn /\ relu' = relu
    /\ opListToFuser' = opListToFuser /\ qatMappings' = qatMappings

CallKey ==
    IF Called("fuse_conv_bn") THEN <<conv.cls, bn.cls>> ELSE <<conv.cls, bn.cls, relu.cls>>
TableDispatched ==
    /\ result.fn # "none"
    /\ CallKey \in DOMAIN opListToFuser
    /\ opListToFuser[CallKey] = result.fn

\* C10: the conv type of every key of the op-sequence table is a key of
\* fuse_conv_bn's class map and of the train and eval maps of
\* fuse_conv_bn_relu, so a call of the mapped function on instances of the
\* key's types never fails with UnsupportedLayerType: it succeeds, fails
\* with ModeMismatch, or, in training mode only, with ConfigurationError.
C10_TableClosure ==
    /\ \A k \in DOMAIN opListToFuser :
           /\ k[1] \in DOMAIN fused_module_class_map
           /\ k[1] \in DOMAIN map_to_fused_module_train
           /\ k[1] \in DOMAIN map_to_fused_module_eval
    /\ TableDispatched =>
           \/ Status = "ok"
           \/ Status = "ModeMismatch" /\ ~SameModeForCall
           \/ Status = "ConfigurationError" /\ conv.training /\ ~BnValid

C10_Witness ==
    /\ TableDispatched /\ Called("fuse_conv_bn_relu")
    /\ conv.cls = "SubMConv2d" /\ ~conv.training /\ AllSame3
    /\ Status = "ok"

====
